---- MODULE Spec2Model ----
\* Model of the concurrency Scheduler of blockifier
\* (crates/blockifier/src/concurrency/scheduler.rs) driven by a pool of
\* workers that follow the collaborator contract of the scheduler.
\* Every atomic operation (atomic load, fetch_add, fetch_min, store) and every
\* critical section under a per-index status lock is one step.

EXTENDS Integers, FiniteSets, Sequences, TLC

\* ---------------------------------------------------------------- bounds
MaxChunk == 2
NumWorkers == 2
MaxAborts == 2

Workers == 1..NumWorkers
NoWorker == 0

\* TransactionStatus
ReadyToExecute == "ReadyToExecute"
Executing == "Executing"
Executed == "Executed"
Aborting == "Aborting"
Committed == "Committed"

\* Task
ExecutionTask(i) == [k |-> "exec", i |-> i]
ValidationTask(i) == [k |-> "val", i |-> i]
AskForTask == [k |-> "ask", i |-> 0]
NoTaskAvailable == [k |-> "notask", i |-> 0]
Done == [k |-> "done", i |-> 0]

Min(a, b) == IF a < b THEN a ELSE b

VARIABLES
    chunk_size,        \* Scheduler.chunk_size
    execution_index,   \* Scheduler.execution_index
    validation_index,  \* Scheduler.validation_index
    commit_index,      \* Scheduler.commit_index (value of the mutex)
    commit_holder,     \* worker holding the commit_index mutex, NoWorker if free
    tx_statuses,       \* Scheduler.tx_statuses
    done_marker,       \* Scheduler.done_marker
    panics,            \* messages of the panics raised so far
    poisoned,          \* indices whose status mutex a panic has poisoned
    commit_poisoned,   \* the commit_index mutex has been poisoned by a panic
    pc,                \* program counter of each worker
    task,              \* task held by each worker
    tmp,               \* local index of each worker
    nAborts,           \* number of read-set conflicts found (liveness specification)
    validated,         \* ghost: i validated after its last finish_execution
    executedOnce,      \* ghost: finish_execution(i) has run at least once
    mustVal,           \* ghost: indices finished whose validation slot is not yet claimed
    commitLog,         \* ghost: indices returned by successful try_commit calls
    hsCalled,          \* ghost: halt_scheduler has been called
    valStale,          \* ghost: validation_index was decreased to <= the index of
                       \* the worker's outstanding validation claim after it was claimed
    sawVltE,           \* ghost: next_task observed validation_index < execution_index
    nSeen              \* value returned by the last get_n_committed_txs call, -1 if none

vars == <<chunk_size, execution_index, validation_index, commit_index,
          commit_holder, tx_statuses, done_marker, panics, poisoned, commit_poisoned, commit_poisoned, pc, task, tmp,
          nAborts, validated, executedOnce, mustVal, commitLog, hsCalled,
          valStale, sawVltE, nSeen>>

Indices == 0..(chunk_size - 1)

\* Scheduler::new(chunk_size)
SchedulerNew(c) ==
    /\ chunk_size = c
    /\ execution_index = 0
    /\ validation_index = c
    /\ commit_index = 0
    /\ commit_holder = NoWorker
    /\ tx_statuses = [i \in 0..(c - 1) |-> ReadyToExecute]
    /\ done_marker = FALSE

Init ==
    /\ \E c \in 0..MaxChunk : SchedulerNew(c)
    /\ panics = {}
    /\ poisoned = {}
    /\ commit_poisoned = FALSE
    /\ pc = [w \in Workers |-> "loop"]
    /\ task = [w \in Workers |-> AskForTask]
    /\ tmp = [w \in Workers |-> 0]
    /\ nAborts = 0
    /\ validated = [i \in Indices |-> FALSE]
    /\ executedOnce = [i \in Indices |-> FALSE]
    /\ mustVal = {}
    /\ commitLog = << >>
    /\ hsCalled = FALSE
    /\ valStale = [w \in Workers |-> FALSE]
    /\ sawVltE = [w \in Workers |-> FALSE]
    /\ nSeen = -1

SetStatus(i, s) == tx_statuses' = [tx_statuses EXCEPT ![i] = s]
Goto(w, l) == pc' = [pc EXCEPT ![w] = l]
SetTask(w, t) == task' = [task EXCEPT ![w] = t]
SetTmp(w, v) == tmp' = [tmp EXCEPT ![w] = v]
\* A worker holds a validation claim on index i from the fetch_add that
\* returned i until try_validation_abort(i) or the end of the validation.
ValClaim(w) ==
    IF pc[w] = "nvv_lock" THEN tmp[w]
    ELSE IF task[w].k = "val" /\ pc[w] \notin {"fa_ready", "fa_load", "fa_inc"}
           THEN task[w].i ELSE -1
MarkStale(target) ==
    valStale' = [v \in Workers |->
                   valStale[v] \/ (ValClaim(v) >= 0 /\ target <= ValClaim(v))]
ClearStale(w) == valStale' = [valStale EXCEPT ![w] = FALSE]

Ghosts == <<nAborts, validated, executedOnce, mustVal, commitLog, hsCalled,
            valStale, sawVltE, nSeen>>

\* A panic unwinds the panicking thread only (panic = "unwind"): the worker
\* leaves its loop, and every MutexGuard it holds is dropped while unwinding,
\* which poisons the mutex.  locks are the status indices whose guard it holds;
\* the commit_index guard is dropped if the worker is the commit holder.
WorkerPanic(w, msg, locks) ==
    /\ panics' = panics \cup {msg}
    /\ poisoned' = poisoned \cup locks
    /\ commit_poisoned' = (commit_poisoned \/ commit_holder = w)
    /\ commit_holder' = IF commit_holder = w THEN NoWorker ELSE commit_holder
    /\ Goto(w, "panicked")
    /\ UNCHANGED <<chunk_size, execution_index, validation_index, commit_index,
                   tx_statuses, done_marker, task, tmp, Ghosts>>

\* lock_mutex_in_array(tx_statuses, i) panics on a poisoned status mutex.
StatusPoisoned(i) == i \in poisoned

\* Scheduler::halt: any party may call it at any time.
Halt ==
    /\ ~done_marker
    /\ done_marker' = TRUE
    /\ UNCHANGED <<chunk_size, execution_index, validation_index, commit_index,
                   commit_holder, tx_statuses, panics, poisoned, commit_poisoned, pc, task, tmp, Ghosts>>

\* Where a worker goes after leaving the commit phase: its dispatch loop
\* handles the task it holds.
DispatchPc(t) ==
    CASE t.k = "exec" -> "fe_set"
      [] t.k = "val" -> "validate"
      [] t.k = "ask" -> "nt_done"
      [] t.k = "notask" -> "loop"
      [] t.k = "done" -> "done"

\* Leaving the commit phase and dispatching the held task (NoTaskAvailable
\* is turned into AskForTask after a yield).
Dispatch(w) ==
    /\ pc' = [pc EXCEPT ![w] = DispatchPc(task[w])]
    /\ task' = [task EXCEPT ![w] = IF task[w].k = "notask" THEN AskForTask ELSE task[w]]

\* Scheduler::try_enter_commit_phase (commit_index.try_lock())
TryEnterCommitPhaseMut(w) ==
    /\ pc[w] = "loop"
    /\ commit_holder' = w
    /\ Goto(w, "tc")
    /\ UNCHANGED <<chunk_size, execution_index, validation_index, commit_index,
                   tx_statuses, done_marker, panics, poisoned, commit_poisoned, task, tmp, Ghosts>>
TryEnterCommitPhaseBlockMut(w) ==
    /\ pc[w] = "loop"
    /\ commit_holder = NoWorker
    /\ commit_holder' = w
    /\ Goto(w, "tc")
    /\ UNCHANGED <<chunk_size, execution_index, validation_index, commit_index,
                   tx_statuses, done_marker, panics, poisoned, commit_poisoned, task, tmp, Ghosts>>
TryEnterCommitPhase(w) ==
    /\ pc[w] = "loop"
    /\ IF commit_holder = NoWorker /\ commit_poisoned
         THEN WorkerPanic(w, "commit_index_poisoned", {})
         ELSE /\ IF commit_holder = NoWorker
                   THEN /\ commit_holder' = w
                        /\ Goto(w, "tc")
                        /\ UNCHANGED task
                   ELSE /\ Dispatch(w)
                        /\ UNCHANGED commit_holder
              /\ UNCHANGED <<chunk_size, execution_index, validation_index, commit_index,
                             tx_statuses, done_marker, panics, poisoned, commit_poisoned, tmp, Ghosts>>

\* TransactionCommitter::try_commit, first part: done check and assertion.
\* The committing worker calls it on entering the commit phase and again
\* after every successful try_commit.
TryCommitStartMut(w) ==
    /\ pc[w] \in {"tc", "committed", "reexecuted"}
    /\ IF commit_index < chunk_size
         THEN /\ Goto(w, "tc_lock")
              /\ UNCHANGED <<chunk_size, execution_index, validation_index, commit_index,
                             commit_holder, tx_statuses, done_marker, panics, poisoned, commit_poisoned,
                             task, tmp, Ghosts>>
         ELSE WorkerPanic(w, "try_commit", {})
TryCommitStart(w) ==
    /\ pc[w] \in {"tc", "committed", "reexecuted"}
    /\ IF done_marker \/ commit_index < chunk_size
         THEN /\ Goto(w, IF done_marker THEN "release" ELSE "tc_lock")
              /\ UNCHANGED <<chunk_size, execution_index, validation_index, commit_index,
                             commit_holder, tx_statuses, done_marker, panics, poisoned, commit_poisoned,
                             task, tmp, Ghosts>>
         ELSE WorkerPanic(w, "try_commit", {})

\* try_commit commits only a transaction whose status is Executed.
CommitEligibleMut(s) == s # Committed
CommitEligible(s) == s = Executed

\* try_commit returns Some(*commit_index_guard - 1), after the increment.
TryCommitReturnMut == commit_index'
TryCommitReturn == commit_index' - 1

\* TransactionCommitter::try_commit, second part: under the status lock of
\* commit_index.  The returned index is kept in tmp[w].
TryCommitLockMut(w) ==
    /\ pc[w] = "tc_lock"
    /\ IF StatusPoisoned(commit_index)
         THEN WorkerPanic(w, "status_poisoned", {})
         ELSE /\ IF ~CommitEligible(tx_statuses[commit_index])
                   THEN /\ Goto(w, "release")
                        /\ commit_index' = commit_index + 1
                        /\ UNCHANGED <<tx_statuses, done_marker, tmp, commitLog>>
                   ELSE /\ SetStatus(commit_index, Committed)
                        /\ commit_index' = commit_index + 1
                        /\ done_marker' = (done_marker \/ commit_index' = chunk_size)
                        /\ SetTmp(w, TryCommitReturn)
                        /\ commitLog' = Append(commitLog, tmp'[w])
                        /\ Goto(w, "committed")
              /\ UNCHANGED <<chunk_size, execution_index, validation_index, commit_holder,
                             panics, poisoned, commit_poisoned, task, nAborts, validated, executedOnce,
                             mustVal, hsCalled, valStale, sawVltE, nSeen>>
TryCommitLock(w) ==
    /\ pc[w] = "tc_lock"
    /\ IF StatusPoisoned(commit_index)
         THEN WorkerPanic(w, "status_poisoned", {})
         ELSE /\ IF ~CommitEligible(tx_statuses[commit_index])
                   THEN /\ Goto(w, "release")
                        /\ UNCHANGED <<commit_index, tx_statuses, done_marker, tmp, commitLog>>
                   ELSE /\ SetStatus(commit_index, Committed)
                        /\ commit_index' = commit_index + 1
                        /\ done_marker' = (done_marker \/ commit_index' = chunk_size)
                        /\ SetTmp(w, TryCommitReturn)
                        /\ commitLog' = Append(commitLog, tmp'[w])
                        /\ Goto(w, "committed")
              /\ UNCHANGED <<chunk_size, execution_index, validation_index, commit_holder,
                             panics, poisoned, commit_poisoned, task, nAborts, validated, executedOnce,
                             mustVal, hsCalled, valStale, sawVltE, nSeen>>

\* Scheduler::decrease_validation_index
DecreaseValidationIndex(target) ==
    validation_index' = Min(validation_index, target)

\* Scheduler::finish_execution_during_commit, called by the committing worker
\* after it re-executed the transaction it just committed.  The worker then
\* calls try_commit again or halt_scheduler on the same TransactionCommitter.
FinishExecutionDuringCommitMut(w) ==
    /\ pc[w] = "committed"
    /\ DecreaseValidationIndex(tmp[w])
    /\ MarkStale(tmp[w])
    /\ Goto(w, "reexecuted")
    /\ UNCHANGED <<chunk_size, execution_index, commit_index, commit_holder,
                   tx_statuses, done_marker, panics, poisoned, commit_poisoned, task, tmp, nAborts, validated,
                   executedOnce, mustVal, commitLog, hsCalled, sawVltE, nSeen>>
FinishExecutionDuringCommit(w) ==
    /\ pc[w] = "committed"
    /\ DecreaseValidationIndex(tmp[w] + 1)
    /\ MarkStale(tmp[w] + 1)
    /\ Goto(w, "reexecuted")
    /\ UNCHANGED <<chunk_size, execution_index, commit_index, commit_holder,
                   tx_statuses, done_marker, panics, poisoned, commit_poisoned, task, tmp, nAborts, validated,
                   executedOnce, mustVal, commitLog, hsCalled, sawVltE, nSeen>>

\* TransactionCommitter::halt_scheduler, called by the committing worker when
\* the transaction it just committed is excluded from the block.
\* TransactionCommitter::halt_scheduler: assert!(commit_index > 0), decrement,
\* then Scheduler::halt.
HaltSchedulerBodyMut(w) ==
    IF commit_index > 0
      THEN /\ UNCHANGED commit_index
           /\ done_marker' = TRUE
           /\ Goto(w, "release")
           /\ hsCalled' = TRUE
           /\ UNCHANGED <<chunk_size, execution_index, validation_index, commit_holder,
                          tx_statuses, panics, poisoned, commit_poisoned, task, tmp, nAborts, validated,
                          executedOnce, mustVal, commitLog, valStale, sawVltE, nSeen>>
      ELSE WorkerPanic(w, "halt_scheduler", {})
HaltSchedulerBody(w) ==
    IF commit_index > 0
      THEN /\ commit_index' = commit_index - 1
           /\ done_marker' = TRUE
           /\ Goto(w, "release")
           /\ hsCalled' = TRUE
           /\ UNCHANGED <<chunk_size, execution_index, validation_index, commit_holder,
                          tx_statuses, panics, poisoned, commit_poisoned, task, tmp, nAborts, validated,
                          executedOnce, mustVal, commitLog, valStale, sawVltE, nSeen>>
      ELSE WorkerPanic(w, "halt_scheduler", {})

\* The committing worker calls halt_scheduler when the transaction it just
\* committed is excluded from the block, before or after re-executing it.
HaltScheduler(w) ==
    /\ pc[w] \in {"committed", "reexecuted"}
    /\ HaltSchedulerBody(w)

\* Out of contract: the commit-handle holder calls halt_scheduler while
\* commit_index = 0 (nothing committed yet).
HaltSchedulerOutOfContract(w) ==
    /\ pc[w] = "tc"
    /\ commit_index = 0
    /\ HaltSchedulerBody(w)

\* Dropping the TransactionCommitter releases the commit_index mutex.
ReleaseCommitPhase(w) ==
    /\ pc[w] = "release"
    /\ commit_holder' = NoWorker
    /\ Dispatch(w)
    /\ SetTmp(w, 0)
    /\ UNCHANGED <<chunk_size, execution_index, validation_index, commit_index,
                   tx_statuses, done_marker, panics, poisoned, commit_poisoned, Ghosts>>

\* Scheduler::finish_execution, first part: Scheduler::set_executed_status
\* (the worker has run ExecutionTask(i) externally).
\* Scheduler::set_executed_status(i): assert_eq!(status, Executing) and the update.
SetExecutedStatusOk(i) == tx_statuses[i] = Executing
SetExecutedStatusMut(i) ==
    /\ SetStatus(i, Executed) /\ UNCHANGED <<panics, poisoned, commit_poisoned>>
SetExecutedStatus(i) ==
    IF SetExecutedStatusOk(i)
      THEN /\ SetStatus(i, Executed) /\ UNCHANGED <<panics, poisoned, commit_poisoned>>
      ELSE /\ panics' = panics \cup {"set_executed_status"}
           /\ poisoned' = poisoned \cup {i}
           /\ UNCHANGED <<tx_statuses, commit_poisoned>>

FinishExecutionSetStatus(w) ==
    /\ pc[w] = "fe_set"
    /\ LET i == task[w].i IN
       IF StatusPoisoned(i)
         THEN WorkerPanic(w, "status_poisoned", {})
         ELSE IF SetExecutedStatusOk(i)
           THEN /\ SetExecutedStatus(i)
                /\ SetTmp(w, i)
                /\ SetTask(w, AskForTask)
                /\ Goto(w, "fe_min")
                /\ validated' = [validated EXCEPT ![i] = FALSE]
                /\ executedOnce' = [executedOnce EXCEPT ![i] = TRUE]
                /\ UNCHANGED <<chunk_size, execution_index, validation_index, commit_index,
                               commit_holder, done_marker, nAborts, mustVal, commitLog,
                               hsCalled, valStale, sawVltE, nSeen>>
           ELSE WorkerPanic(w, "set_executed_status", {i})

\* Scheduler::finish_execution, second part: decrease_validation_index(i).
FinishExecutionDecreaseMut(w) ==
    /\ pc[w] = "fe_min"
    /\ DecreaseValidationIndex(tmp[w] + 1)
    /\ MarkStale(tmp[w] + 1)
    /\ mustVal' = mustVal \cup {tmp[w]}
    /\ Goto(w, "loop")
    /\ SetTmp(w, 0)
    /\ UNCHANGED <<chunk_size, execution_index, commit_index, commit_holder,
                   tx_statuses, done_marker, panics, poisoned, commit_poisoned, task, nAborts, validated,
                   executedOnce, commitLog, hsCalled, sawVltE, nSeen>>
FinishExecutionDecrease(w) ==
    /\ pc[w] = "fe_min"
    /\ DecreaseValidationIndex(tmp[w])
    /\ MarkStale(tmp[w])
    /\ mustVal' = mustVal \cup {tmp[w]}
    /\ Goto(w, "loop")
    /\ SetTmp(w, 0)
    /\ UNCHANGED <<chunk_size, execution_index, commit_index, commit_holder,
                   tx_statuses, done_marker, panics, poisoned, commit_poisoned, task, nAborts, validated,
                   executedOnce, commitLog, hsCalled, sawVltE, nSeen>>

\* The worker validates the read set of ValidationTask(i) and finds it valid:
\* it does nothing further for i.
ValidateValid(w) ==
    /\ pc[w] = "validate"
    /\ validated' = [validated EXCEPT ![task[w].i] = TRUE]
    /\ SetTask(w, AskForTask)
    /\ Goto(w, "loop")
    /\ UNCHANGED <<chunk_size, execution_index, validation_index, commit_index,
                   commit_holder, tx_statuses, done_marker, panics, poisoned, commit_poisoned, tmp, nAborts,
                   executedOnce, mustVal, commitLog, hsCalled, sawVltE, nSeen>>
    /\ ClearStale(w)

\* The worker finds the read set of ValidationTask(i) invalid and calls
\* try_validation_abort(i).
ValidateInvalid(w) ==
    /\ pc[w] = "validate"
    /\ Goto(w, "tva")
    /\ UNCHANGED <<chunk_size, execution_index, validation_index, commit_index,
                   commit_holder, tx_statuses, done_marker, panics, poisoned, commit_poisoned, task, tmp, Ghosts>>

\* Read-set conflicts come from writes of lower transactions, of which there
\* are finitely many: a validation finds a conflict at most MaxAborts times in
\* a run.  nAborts counts the conflicts found.
ValidateInvalidBounded(w) ==
    /\ pc[w] = "validate"
    /\ nAborts < MaxAborts
    /\ nAborts' = nAborts + 1
    /\ Goto(w, "tva")
    /\ UNCHANGED <<chunk_size, execution_index, validation_index, commit_index,
                   commit_holder, tx_statuses, done_marker, panics, poisoned, commit_poisoned, task, tmp,
                   validated, executedOnce, mustVal, commitLog, hsCalled,
                   valStale, sawVltE, nSeen>>

\* try_validation_abort aborts only an Executed transaction.
ValidationAbortableMut(s) == s # Committed
ValidationAbortable(s) == s = Executed

\* Scheduler::try_validation_abort(i); on true the worker calls finish_abort(i).
TryValidationAbort(w) ==
    /\ pc[w] = "tva"
    /\ LET i == task[w].i IN
       IF StatusPoisoned(i)
         THEN WorkerPanic(w, "status_poisoned", {})
         ELSE /\ IF ValidationAbortable(tx_statuses[i])
                   THEN /\ SetStatus(i, Aborting)
                        /\ Goto(w, "fa_ready")
                        /\ UNCHANGED <<task, validated>>
                   ELSE /\ validated' = [validated EXCEPT ![i] = TRUE]
                        /\ SetTask(w, AskForTask)
                        /\ Goto(w, "loop")
                        /\ UNCHANGED tx_statuses
              /\ UNCHANGED <<chunk_size, execution_index, validation_index, commit_index,
                             commit_holder, done_marker, panics, poisoned, commit_poisoned, tmp, nAborts,
                             executedOnce, mustVal, commitLog, hsCalled, sawVltE, nSeen>>
              /\ ClearStale(w)

\* Scheduler::finish_abort(i), first part: Scheduler::set_ready_status(i).
\* Scheduler::set_ready_status(i): assert_eq!(status, Aborting) and the update.
SetReadyStatusOk(i) == tx_statuses[i] = Aborting
SetReadyStatus(i) ==
    IF SetReadyStatusOk(i)
      THEN /\ SetStatus(i, ReadyToExecute) /\ UNCHANGED <<panics, poisoned, commit_poisoned>>
      ELSE /\ panics' = panics \cup {"set_ready_status"}
           /\ poisoned' = poisoned \cup {i}
           /\ UNCHANGED <<tx_statuses, commit_poisoned>>

FinishAbortSetReady(w) ==
    /\ pc[w] = "fa_ready"
    /\ LET i == task[w].i IN
       IF StatusPoisoned(i)
         THEN WorkerPanic(w, "status_poisoned", {})
         ELSE IF SetReadyStatusOk(i)
           THEN /\ SetReadyStatus(i)
                /\ Goto(w, "fa_load")
                /\ UNCHANGED <<chunk_size, execution_index, validation_index, commit_index,
                               commit_holder, done_marker, task, tmp, Ghosts>>
           ELSE WorkerPanic(w, "set_ready_status", {i})

\* Scheduler::finish_abort(i), second part: execution_index.load() > i.
FinishAbortLoadCmpMut(w) ==
    /\ pc[w] = "fa_load"
    /\ IF validation_index > task[w].i
         THEN /\ Goto(w, "fa_inc") /\ UNCHANGED task
         ELSE /\ SetTask(w, AskForTask) /\ Goto(w, "loop")
    /\ UNCHANGED <<chunk_size, execution_index, validation_index, commit_index,
                   commit_holder, tx_statuses, done_marker, panics, poisoned, commit_poisoned, tmp, Ghosts>>
FinishAbortLoadRollbackMut(w) ==
    /\ pc[w] = "fa_load"
    /\ execution_index' = Min(execution_index, task[w].i)
    /\ SetTask(w, AskForTask) /\ Goto(w, "loop")
    /\ UNCHANGED <<chunk_size, validation_index, commit_index,
                   commit_holder, tx_statuses, done_marker, panics, poisoned, commit_poisoned, tmp, Ghosts>>
FinishAbortLoad(w) ==
    /\ pc[w] = "fa_load"
    /\ IF execution_index > task[w].i
         THEN /\ Goto(w, "fa_inc") /\ UNCHANGED task
         ELSE /\ SetTask(w, AskForTask) /\ Goto(w, "loop")
    /\ UNCHANGED <<chunk_size, execution_index, validation_index, commit_index,
                   commit_holder, tx_statuses, done_marker, panics, poisoned, commit_poisoned, tmp, Ghosts>>

\* Scheduler::try_incarnate(i) as a status update and its result.
TryIncarnateOk(i) ==
    i < chunk_size /\ tx_statuses[i] = ReadyToExecute
TryIncarnate(w, i) ==
    IF TryIncarnateOk(i)
      THEN /\ SetStatus(i, Executing) /\ SetTask(w, ExecutionTask(i))
      ELSE /\ SetTask(w, AskForTask) /\ UNCHANGED tx_statuses

\* Scheduler::finish_abort(i), third part: try_incarnate(i); the task it
\* returns is the worker's next task.
FinishAbortIncarnate(w) ==
    /\ pc[w] = "fa_inc"
    /\ IF task[w].i < chunk_size /\ StatusPoisoned(task[w].i)
         THEN WorkerPanic(w, "status_poisoned", {})
         ELSE /\ TryIncarnate(w, task[w].i)
              /\ Goto(w, "loop")
              /\ UNCHANGED <<chunk_size, execution_index, validation_index, commit_index,
                             commit_holder, done_marker, panics, poisoned, commit_poisoned, tmp, Ghosts>>

\* Scheduler::next_task: done() check.
NextTaskDone(w) ==
    /\ pc[w] = "nt_done"
    /\ IF done_marker
         THEN /\ SetTask(w, Done) /\ Goto(w, "loop")
         ELSE /\ Goto(w, "nt_v") /\ UNCHANGED task
    /\ UNCHANGED <<chunk_size, execution_index, validation_index, commit_index,
                   commit_holder, tx_statuses, done_marker, panics, poisoned, commit_poisoned, tmp, Ghosts>>

\* Scheduler::next_task: index_to_validate = validation_index.load().
NextTaskLoadValidation(w) ==
    /\ pc[w] = "nt_v"
    /\ SetTmp(w, validation_index)
    /\ Goto(w, "nt_e")
    /\ UNCHANGED <<chunk_size, execution_index, validation_index, commit_index,
                   commit_holder, tx_statuses, done_marker, panics, poisoned, commit_poisoned, task, Ghosts>>

\* Scheduler::next_task: index_to_execute = execution_index.load() and the
\* two comparisons that follow.
NextTaskLoadExecution(w) ==
    /\ pc[w] = "nt_e"
    /\ LET v == tmp[w]
           e == execution_index IN
       IF Min(v, e) >= chunk_size
         THEN /\ SetTask(w, NoTaskAvailable) /\ Goto(w, "loop")
              /\ UNCHANGED sawVltE
         ELSE IF v < e
                THEN /\ Goto(w, "nvv_peek") /\ UNCHANGED task
                     /\ sawVltE' = [sawVltE EXCEPT ![w] = TRUE]
                ELSE /\ Goto(w, "nve_peek") /\ UNCHANGED <<task, sawVltE>>
    /\ SetTmp(w, 0)
    /\ UNCHANGED <<chunk_size, execution_index, validation_index, commit_index,
                   commit_holder, tx_statuses, done_marker, panics, poisoned, commit_poisoned, nAborts,
                   validated, executedOnce, mustVal, commitLog, hsCalled,
                   valStale, nSeen>>

\* Scheduler::next_version_to_validate: the early-return load.
NextVersionToValidatePeek(w) ==
    /\ pc[w] = "nvv_peek"
    /\ IF validation_index >= chunk_size
         THEN Goto(w, "nve_peek")
         ELSE Goto(w, "nvv_fa")
    /\ UNCHANGED <<chunk_size, execution_index, validation_index, commit_index,
                   commit_holder, tx_statuses, done_marker, panics, poisoned, commit_poisoned, task, tmp, Ghosts>>

\* Scheduler::next_version_to_validate: validation_index.fetch_add(1).
\* next_version_to_validate ignores a fetch_add result >= chunk_size.
ValidateSlotOkMut(i) == i <= chunk_size
ValidateSlotOk(i) == i < chunk_size

\* Scheduler::next_version_to_validate: validation_index.fetch_add(1).
NextVersionToValidateFetchAddMut(w) ==
    /\ pc[w] = "nvv_fa"
    /\ UNCHANGED validation_index
    /\ mustVal' = mustVal \ {validation_index}
    /\ IF ValidateSlotOk(validation_index)
         THEN /\ Goto(w, "nvv_lock") /\ SetTmp(w, validation_index)
         ELSE /\ Goto(w, "nve_peek") /\ UNCHANGED tmp
    /\ UNCHANGED <<chunk_size, execution_index, commit_index, commit_holder,
                   tx_statuses, done_marker, panics, poisoned, commit_poisoned, task, nAborts, validated,
                   executedOnce, commitLog, hsCalled, valStale, sawVltE, nSeen>>
NextVersionToValidateFetchAdd(w) ==
    /\ pc[w] = "nvv_fa"
    /\ validation_index' = validation_index + 1
    /\ mustVal' = mustVal \ {validation_index}
    /\ IF ValidateSlotOk(validation_index)
         THEN /\ Goto(w, "nvv_lock") /\ SetTmp(w, validation_index)
         ELSE /\ Goto(w, "nve_peek") /\ UNCHANGED tmp
    /\ UNCHANGED <<chunk_size, execution_index, commit_index, commit_holder,
                   tx_statuses, done_marker, panics, poisoned, commit_poisoned, task, nAborts, validated,
                   executedOnce, commitLog, hsCalled, valStale, sawVltE, nSeen>>

\* Scheduler::next_version_to_validate: status check under the lock; on
\* Some(i) next_task returns ValidationTask(i), else it falls through.
\* next_version_to_validate hands out an index whose status is Executed.
ValidatableMut(st) == st # Committed
Validatable(st) == st = Executed

\* Scheduler::next_version_to_validate: status check under the lock; on
\* Some(i) next_task returns ValidationTask(i), else it falls through.  Locking
\* an index outside tx_statuses panics (lock_mutex_in_array).
NextVersionToValidateLock(w) ==
    /\ pc[w] = "nvv_lock"
    /\ IF tmp[w] \notin Indices \/ StatusPoisoned(tmp[w])
         THEN WorkerPanic(w, IF tmp[w] \notin Indices THEN "index_out_of_bounds"
                                                    ELSE "status_poisoned", {})
         ELSE /\ IF Validatable(tx_statuses[tmp[w]])
                   THEN /\ SetTask(w, ValidationTask(tmp[w])) /\ Goto(w, "loop")
                        /\ sawVltE' = [sawVltE EXCEPT ![w] = FALSE]
                        /\ UNCHANGED valStale
                   ELSE /\ Goto(w, "nve_peek") /\ UNCHANGED <<task, sawVltE>>
                        /\ ClearStale(w)
              /\ SetTmp(w, 0)
              /\ UNCHANGED <<chunk_size, execution_index, validation_index, commit_index,
                             commit_holder, tx_statuses, done_marker, panics, poisoned, commit_poisoned,
                             nAborts, validated, executedOnce, mustVal, commitLog,
                             hsCalled, nSeen>>

\* Scheduler::next_version_to_execute: the early-return load; on None
\* next_task returns AskForTask.
NextVersionToExecutePeek(w) ==
    /\ pc[w] = "nve_peek"
    /\ IF execution_index >= chunk_size
         THEN /\ SetTask(w, AskForTask) /\ Goto(w, "loop")
              /\ sawVltE' = [sawVltE EXCEPT ![w] = FALSE]
         ELSE /\ Goto(w, "nve_fa") /\ UNCHANGED <<task, sawVltE>>
    /\ UNCHANGED <<chunk_size, execution_index, validation_index, commit_index,
                   commit_holder, tx_statuses, done_marker, panics, poisoned, commit_poisoned, tmp, nAborts,
                   validated, executedOnce, mustVal, commitLog, hsCalled,
                   valStale, nSeen>>

\* Scheduler::next_version_to_execute: execution_index.fetch_add(1).
NextVersionToExecuteFetchAdd(w) ==
    /\ pc[w] = "nve_fa"
    /\ SetTmp(w, execution_index)
    /\ execution_index' = execution_index + 1
    /\ Goto(w, "nve_inc")
    /\ UNCHANGED <<chunk_size, validation_index, commit_index, commit_holder,
                   tx_statuses, done_marker, panics, poisoned, commit_poisoned, task, Ghosts>>

\* Scheduler::next_version_to_execute: try_incarnate; next_task returns
\* ExecutionTask(i) or AskForTask.
NextVersionToExecuteIncarnate(w) ==
    /\ pc[w] = "nve_inc"
    /\ IF tmp[w] < chunk_size /\ StatusPoisoned(tmp[w])
         THEN WorkerPanic(w, "status_poisoned", {})
         ELSE /\ TryIncarnate(w, tmp[w])
              /\ Goto(w, "loop")
              /\ SetTmp(w, 0)
              /\ sawVltE' = [sawVltE EXCEPT ![w] = FALSE]
              /\ UNCHANGED <<chunk_size, execution_index, validation_index, commit_index,
                             commit_holder, done_marker, panics, poisoned, commit_poisoned, nAborts,
                             validated, executedOnce, mustVal, commitLog, hsCalled,
                             valStale, nSeen>>

\* Scheduler::get_n_committed_txs: blocking commit_index.lock().unwrap(); called
\* by the owner of the scheduler once every worker has left its loop (returned
\* or panicked).  On a poisoned mutex the unwrap panics.
GetNCommittedTxs ==
    /\ \A w \in Workers : pc[w] \in {"done", "panicked"}
    /\ commit_holder = NoWorker
    /\ IF commit_poisoned
         THEN /\ "commit_index_poisoned_unwrap" \notin panics
              /\ panics' = panics \cup {"commit_index_poisoned_unwrap"}
              /\ UNCHANGED nSeen
         ELSE /\ nSeen # commit_index
              /\ nSeen' = commit_index
              /\ UNCHANGED panics
    /\ UNCHANGED <<chunk_size, execution_index, validation_index, commit_index,
                   commit_holder, tx_statuses, done_marker, poisoned, commit_poisoned,
                   pc, task, tmp,
                   nAborts, validated, executedOnce, mustVal, commitLog, hsCalled,
                   valStale, sawVltE>>

\* A caller outside the collaborator contract calls finish_execution(i) on an
\* index that is not Executing, or finish_abort(i) on one that is not Aborting.
\* The caller is one thread outside the worker pool: its call panics on that
\* thread only, poisoning status[i] (the assertion fails under the guard), and
\* the thread makes no further call.  On an already poisoned status[i]
\* lock_mutex_in_array panics before the assertion.
OutOfContractCallerAlive ==
    panics \cap {"set_executed_status", "set_ready_status"} = {}
FinishExecutionOutOfContract(i) ==
    /\ OutOfContractCallerAlive
    /\ ~SetExecutedStatusOk(i)
    /\ IF StatusPoisoned(i)
         THEN /\ panics' = panics \cup {"status_poisoned"}
              /\ UNCHANGED <<tx_statuses, poisoned, commit_poisoned>>
         ELSE SetExecutedStatus(i)
    /\ UNCHANGED <<chunk_size, execution_index, validation_index, commit_index,
                   commit_holder, done_marker, pc, task, tmp, Ghosts>>
FinishAbortOutOfContract(i) ==
    /\ OutOfContractCallerAlive
    /\ ~SetReadyStatusOk(i)
    /\ IF StatusPoisoned(i)
         THEN /\ panics' = panics \cup {"status_poisoned"}
              /\ UNCHANGED <<tx_statuses, poisoned, commit_poisoned>>
         ELSE SetReadyStatus(i)
    /\ UNCHANGED <<chunk_size, execution_index, validation_index, commit_index,
                   commit_holder, done_marker, pc, task, tmp, Ghosts>>

WorkerStep(w) ==
    \/ TryEnterCommitPhase(w)
    \/ TryCommitStart(w)
    \/ TryCommitLock(w)
    \/ FinishExecutionDuringCommit(w)
    \/ HaltScheduler(w)
    \/ ReleaseCommitPhase(w)
    \/ FinishExecutionSetStatus(w)
    \/ FinishExecutionDecrease(w)
    \/ ValidateValid(w)
    \/ ValidateInvalid(w)
    \/ TryValidationAbort(w)
    \/ FinishAbortSetReady(w)
    \/ FinishAbortLoad(w)
    \/ FinishAbortIncarnate(w)
    \/ NextTaskDone(w)
    \/ NextTaskLoadValidation(w)
    \/ NextTaskLoadExecution(w)
    \/ NextVersionToValidatePeek(w)
    \/ NextVersionToValidateFetchAdd(w)
    \/ NextVersionToValidateLock(w)
    \/ NextVersionToExecutePeek(w)
    \/ NextVersionToExecuteFetchAdd(w)
    \/ NextVersionToExecuteIncarnate(w)

Next ==
    \/ Halt
    \/ GetNCommittedTxs
    \/ \E w \in Workers : WorkerStep(w)

Spec == Init /\ [][Next]_vars

\* Workers that also break the collaborator contract.
ContractNext ==
    \/ Next
    \/ \E i \in Indices : FinishExecutionOutOfContract(i)
    \/ \E i \in Indices : FinishAbortOutOfContract(i)
    \/ \E w \in Workers : HaltSchedulerOutOfContract(w)

ContractSpec == Init /\ [][ContractNext]_vars

\* Liveness: every worker keeps running its loop (weak fairness), and a
\* validation finds a read-set conflict at most MaxAborts times.
LiveWorkerStep(w) ==
    \/ (WorkerStep(w) /\ ~ValidateInvalid(w))
    \/ ValidateInvalidBounded(w)

LiveNext ==
    \/ Halt
    \/ GetNCommittedTxs
    \/ \E w \in Workers : LiveWorkerStep(w)

LiveSpec ==
    /\ Init
    /\ [][LiveNext]_vars
    /\ \A w \in Workers : WF_vars(LiveWorkerStep(w))

\* ------------------------------------------------------------ properties

\* C1: successive successful try_commit calls return 0, 1, 2, ... (each the
\* previous commit_index) and stay below the chunk size; an index is Committed
\* only when every lower index is; halt_scheduler lowers commit_index by
\* exactly one and no try_commit succeeds after it.
C1_CommitOrderInv ==
    /\ \A k \in 1..Len(commitLog) : commitLog[k] = k - 1
    /\ Len(commitLog) <= chunk_size
    /\ \A i, j \in Indices :
          (j < i /\ tx_statuses[i] = Committed) => tx_statuses[j] = Committed
C1_HaltAct ==
    /\ hsCalled => commitLog' = commitLog
    /\ (hsCalled' /\ ~hsCalled) => commit_index' = commit_index - 1
C1_CommitOrder == []C1_CommitOrderInv /\ [][C1_HaltAct]_vars
C1_Witness == hsCalled /\ Len(commitLog) >= 2

\* C2: 0 <= commit_index <= C and every index below commit_index is Committed.
C2_CommitPrefix ==
    /\ 0 <= commit_index
    /\ commit_index <= chunk_size
    /\ \A i \in Indices : i < commit_index => tx_statuses[i] = Committed
C2_Witness == hsCalled /\ commit_index >= 1

\* C3: if commit_index = C then done_marker is set (in every state, the
\* initial state of Scheduler::new(C) included).
C3_DoneAtEnd == commit_index = chunk_size => done_marker

\* C4: no two workers hold an execution claim on the same index, and an
\* Executing index has exactly one worker holding its execution claim.
HoldsExec(w, i) == task[w] = ExecutionTask(i)
C4_AtMostOneExecution ==
    \A i \in Indices :
       /\ \A w1, w2 \in Workers : (w1 # w2) => ~(HoldsExec(w1, i) /\ HoldsExec(w2, i))
       /\ tx_statuses[i] = Executing => \E w \in Workers : HoldsExec(w, i)
C4_Witness ==
    \E w \in Workers, i \in Indices :
       HoldsExec(w, i) /\ tx_statuses[i] = Executing /\ executedOnce[i]

\* C5 (as stated): every committed index other than 0 was validated after its
\* last finish_execution.
C5_ValidatedBeforeCommit ==
    \A i \in Indices : (tx_statuses[i] = Committed /\ i # 0) => validated[i]
\* C5 (amended): try_commit commits an index only while its status is Executed,
\* so every Committed index went through finish_execution; validation is not
\* required by the scheduler.
C5_ExecutedBeforeCommitInv ==
    \A i \in Indices : tx_statuses[i] = Committed => executedOnce[i]
C5_ExecutedBeforeCommitAct ==
    \A w \in Workers :
       (pc[w] = "tc_lock" /\ pc'[w] = "committed") => tx_statuses[commit_index] = Executed
C5_ExecutedBeforeCommit ==
    []C5_ExecutedBeforeCommitInv /\ [][C5_ExecutedBeforeCommitAct]_vars
C5_Witness == \E i \in Indices : i # 0 /\ tx_statuses[i] = Committed /\ ~validated[i]

\* C6: with every worker running its loop under weak fairness, next_task
\* eventually returns Done to every worker.
C6_Termination == <>(\A w \in Workers : pc[w] = "done")

\* C7: for an empty chunk, try_commit returns nothing instead of failing its
\* assertion (Done is reachable through the commit phase).
C7_EmptyChunkCommit == "try_commit" \notin panics

\* C8: done_marker is sticky; once it is set, a next_task that starts returns
\* Done and a try_commit that starts returns nothing.
C8_DoneSticky ==
    [][ /\ done_marker => done_marker'
        /\ \A w \in Workers :
             (done_marker /\ pc[w] = "nt_done" /\ pc'[w] # pc[w]) => task'[w] = Done
        /\ \A w \in Workers :
             (done_marker /\ pc[w] \in {"tc", "committed", "reexecuted"} /\ pc'[w] \in {"tc_lock", "release"})
                => pc'[w] = "release"
      ]_vars
C8_Witness ==
    /\ done_marker
    /\ \E w \in Workers : task[w] = Done
    /\ \E w \in Workers : task[w].k \in {"exec", "val"}

\* C9: after finish_execution(i), validation_index <= i until a validation slot
\* claim (fetch_add) returns i: no validation slot claim skips i.
C9_ValidationFrontier == \A i \in mustVal : validation_index <= i
C9_Witness ==
    \E w \in Workers, i \in Indices :
       /\ task[w] = ValidationTask(i)
       /\ \E j \in mustVal : j > i

\* C10: every change of a status is ReadyToExecute->Executing,
\* Executing->Executed, Executed->Aborting, Aborting->ReadyToExecute or
\* Executed->Committed; Committed never changes.
AllowedTransitions ==
    { <<ReadyToExecute, Executing>>, <<Executing, Executed>>, <<Executed, Aborting>>,
      <<Aborting, ReadyToExecute>>, <<Executed, Committed>> }
C10_StatusTransitions ==
    [][\A i \in Indices :
          tx_statuses'[i] # tx_statuses[i] =>
             <<tx_statuses[i], tx_statuses'[i]>> \in AllowedTransitions]_vars
C10_Witness ==
    /\ \E i \in Indices : tx_statuses[i] = Committed
    /\ \E i \in Indices : tx_statuses[i] = Aborting

\* Program counters of a worker inside Scheduler::next_task.
NextTaskPcs ==
    {"nt_done", "nt_v", "nt_e", "nvv_peek", "nvv_fa", "nvv_lock",
     "nve_peek", "nve_fa", "nve_inc"}

\* C11 (as stated): in every state where no worker is inside next_task,
\* validation_index <= C.
C11_ValidationIndexAtMostC ==
    (\A w \in Workers : pc[w] \notin NextTaskPcs) => validation_index <= chunk_size
\* C11 (amended): validation_index never exceeds C + NumWorkers - 1, and a
\* fetch_add of validation_index that returns a value >= C is ignored (the
\* worker goes on to next_version_to_execute without locking a status).
C11_OvershootBound == validation_index <= chunk_size + NumWorkers - 1
C11_OvershootIgnored ==
    \A w \in Workers :
       (pc[w] = "nvv_fa" /\ pc'[w] # pc[w] /\ validation_index >= chunk_size)
          => pc'[w] = "nve_peek"
C11_ValidationOvershoot == []C11_OvershootBound /\ [][C11_OvershootIgnored]_vars
C11_Witness ==
    /\ validation_index > chunk_size
    /\ \A w \in Workers : pc[w] \notin NextTaskPcs

\* C12: at most one worker is in the commit phase, and it is the holder of the
\* commit mutex; a worker trying to enter never blocks.
CommitPcs == {"tc", "tc_lock", "committed", "reexecuted", "release"}
C12_CommitMutualExclusion ==
    /\ \A w \in Workers : (pc[w] \in CommitPcs) <=> (commit_holder = w)
    /\ \A w \in Workers :
          pc[w] = "loop" => ENABLED TryEnterCommitPhase(w)
C12_Witness ==
    \E w1, w2 \in Workers :
       /\ w1 # w2
       /\ commit_holder = w1
       /\ pc[w2] = "nt_done"

\* C13: halt_scheduler at commit_index = k > 0 leaves commit_index = k-1 and
\* done_marker set; afterwards next_task returns Done and get_n_committed_txs
\* returns k-1; halt_scheduler at commit_index = 0 aborts.
C13_HaltInv ==
    hsCalled => /\ commit_index = Len(commitLog) - 1
                /\ (nSeen # -1 => nSeen = commit_index)
C13_HaltAct ==
    /\ (hsCalled' /\ ~hsCalled) =>
          (commit_index > 0 /\ commit_index' = commit_index - 1 /\ done_marker')
    /\ ("halt_scheduler" \notin panics /\ "halt_scheduler" \in panics') =>
          (commit_index = 0 /\ commit_index' = 0)
    /\ \A w \in Workers :
          (hsCalled /\ pc[w] = "nt_done" /\ pc'[w] # pc[w]) => task'[w] = Done
C13_HaltScheduler == []C13_HaltInv /\ [][C13_HaltAct]_vars
C13_Witness == hsCalled /\ nSeen = Len(commitLog) - 1 /\ nSeen >= 1

\* C14 (as stated): no two workers hold an outstanding ValidationTask(i) for
\* the same index i.
HoldsVal(w, i) ==
    task[w] = ValidationTask(i) /\ pc[w] \notin {"fa_ready", "fa_load", "fa_inc"}
C14_OneValidator ==
    \A i \in Indices, w1, w2 \in Workers :
       (w1 # w2) => ~(HoldsVal(w1, i) /\ HoldsVal(w2, i))
\* C14 (amended): two workers hold ValidationTask(i) at once only if
\* validation_index was decreased to <= i after one of them claimed its slot.
C14_OneValidatorPerWave ==
    \A i \in Indices, w1, w2 \in Workers :
       (w1 # w2 /\ HoldsVal(w1, i) /\ HoldsVal(w2, i)) => (valStale[w1] \/ valStale[w2])
C14_Witness ==
    \E i \in Indices, w1, w2 \in Workers :
       w1 # w2 /\ HoldsVal(w1, i) /\ HoldsVal(w2, i)

\* C15 (as stated): no operation takes a status lock while holding the commit
\* mutex.
StatusLockPcs == {"tc_lock", "fe_set", "tva", "fa_ready", "fa_inc", "nvv_lock"}
StatusLockStep(w) ==
    /\ \/ pc[w] \in StatusLockPcs
       \/ pc[w] = "nve_inc" /\ tmp[w] < chunk_size
    /\ pc'[w] # pc[w]
C15_NoStatusLockUnderCommit ==
    [][\A w \in Workers : StatusLockStep(w) => commit_holder # w]_vars
\* C15 (amended): the only status lock taken under the commit mutex is the one
\* try_commit takes on commit_index; no worker ever blocks (no cyclic wait).
C15_LockOrderAct ==
    \A w \in Workers : (StatusLockStep(w) /\ commit_holder = w) => pc[w] = "tc_lock"
C15_NoBlockedWorker ==
    \A w \in Workers : pc[w] \notin {"done", "panicked"} => ENABLED WorkerStep(w)
C15_LockOrder == [][C15_LockOrderAct]_vars /\ []C15_NoBlockedWorker
C15_Witness ==
    \E w1, w2 \in Workers :
       w1 # w2 /\ commit_holder = w1 /\ pc[w1] = "tc_lock" /\ pc[w2] = "loop"

\* C16: finish_execution(i) on a status other than Executing and finish_abort(i)
\* on a status other than Aborting abort; the ordinary outcomes (commit phase
\* busy, try_commit None, AskForTask, NoTaskAvailable) change no status and
\* raise no error.
OrdinaryOutcome(w) ==
    \/ pc[w] = "loop" /\ commit_holder \notin {NoWorker, w} /\ pc'[w] # pc[w]
    \/ pc[w] \in {"tc", "tc_lock"} /\ pc'[w] = "release"
    \/ pc[w] \in NextTaskPcs /\ pc'[w] = "loop"
         /\ task'[w] \in {AskForTask, NoTaskAvailable}
C16_ContractViolations ==
    [][ /\ \A i \in Indices :
             FinishExecutionOutOfContract(i) =>
                /\ tx_statuses' = tx_statuses
                /\ panics' = panics \cup {IF StatusPoisoned(i) THEN "status_poisoned"
                                                            ELSE "set_executed_status"}
        /\ \A i \in Indices :
             FinishAbortOutOfContract(i) =>
                /\ tx_statuses' = tx_statuses
                /\ panics' = panics \cup {IF StatusPoisoned(i) THEN "status_poisoned"
                                                            ELSE "set_ready_status"}
        /\ \A w \in Workers :
             OrdinaryOutcome(w) => (tx_statuses' = tx_statuses /\ panics' = panics)
      ]_vars
C16_Witness == "set_executed_status" \in panics

\* C17: next_task returns Done iff done_marker is set; NoTaskAvailable iff
\* min(validation_index, execution_index) >= C on the loaded values;
\* ValidationTask(i) only for i < C with status Executed at the claim and after
\* observing validation_index < execution_index; ExecutionTask(i) only for
\* i < C moving status[i] from ReadyToExecute to Executing; AskForTask
\* otherwise, without any status change.
C17_NextTaskResults ==
    [][\A w \in Workers :
         /\ (pc[w] = "nt_done" /\ pc'[w] # pc[w]) => (task'[w] = Done <=> done_marker)
         /\ (pc[w] = "nt_e" /\ pc'[w] # pc[w]) =>
               (task'[w] = NoTaskAvailable <=> Min(tmp[w], execution_index) >= chunk_size)
         /\ (pc[w] = "nvv_lock" /\ task'[w].k = "val") =>
               /\ task'[w].i = tmp[w]
               /\ tmp[w] < chunk_size
               /\ tx_statuses[tmp[w]] = Executed
               /\ sawVltE[w]
         /\ (pc[w] = "nve_inc" /\ task'[w].k = "exec") =>
               /\ task'[w].i = tmp[w]
               /\ tmp[w] < chunk_size
               /\ tx_statuses[tmp[w]] = ReadyToExecute
               /\ tx_statuses'[tmp[w]] = Executing
         /\ (pc[w] \in NextTaskPcs /\ pc'[w] = "loop" /\ task'[w] = AskForTask) =>
               tx_statuses' = tx_statuses
      ]_vars
C17_Witness ==
    \E w1, w2 \in Workers : task[w1].k = "val" /\ task[w2].k = "exec"

\* C18: execution_index never decreases; it only changes by +1.
C18_ExecutionIndexMonotone ==
    [][ /\ execution_index' >= execution_index
        /\ execution_index' # execution_index => execution_index' = execution_index + 1
      ]_vars
C18_Witness == execution_index > chunk_size

\* C19: finish_execution_during_commit(i) sets validation_index to
\* min(validation_index, i+1) and changes no status (status[i] stays
\* Committed), nor execution_index, commit_index or done_marker.
C19_DuringCommitFrame ==
    [][\A w \in Workers :
         (pc[w] = "committed" /\ pc'[w] = "reexecuted") =>
            /\ validation_index' = Min(validation_index, tmp[w] + 1)
            /\ tx_statuses[tmp[w]] = Committed
            /\ tx_statuses' = tx_statuses
            /\ execution_index' = execution_index
            /\ commit_index' = commit_index
            /\ done_marker' = done_marker
      ]_vars
C19_Witness ==
    \E w \in Workers :
       /\ pc[w] = "reexecuted"
       /\ Len(commitLog) >= 1
       /\ tmp[w] = commitLog[Len(commitLog)]
       /\ validation_index = tmp[w] + 1
       /\ tmp[w] + 1 < chunk_size

\* C20: finish_abort(i) after a successful try_validation_abort(i) always
\* returns ExecutionTask(i).
C20_FinishAbortReexecutes ==
    [][\A w \in Workers :
         (pc[w] \in {"fa_load", "fa_inc"} /\ pc'[w] = "loop") =>
            task'[w] = ExecutionTask(task[w].i)]_vars
C20_Witness == \E w \in Workers : pc[w] = "fa_inc"
====
